---- MODULE Spec2Model ----
(***************************************************************************)
(* The CHSH game notebook (src/4.-CHSH_CERN.ipynb): CHSH_circuit builds    *)
(* the two-qubit circuit for the bits (x,y) that Alice and Bob receive,    *)
(* winning_probability packs the four circuits into one job, reads the     *)
(* counts of each circuit and returns the fraction of winning shots.       *)
(*                                                                         *)
(* Angles are kept in units of pi/4 (0, pi/2, pi/4, -pi/4 are 0, 2, 1,     *)
(* -1): the notebook only hands them to ry.  The quotient of line 119 is   *)
(* kept as the pair (num, den) and compared by cross multiplication.       *)
(***************************************************************************)
EXTENDS Integers, Sequences, FiniteSets, TLC

VARIABLES pc, args, circuits, job, idx, total, ret, exc, requests, reads, signalled

vars == <<pc, args, circuits, job, idx, total, ret, exc, requests, reads, signalled>>

(* ---------------- bounds of the model ---------------- *)
MaxShots == 1
MaxCount == 2
MaxSelector == 2
MaxAngleOffset == 1

(* ---------------- constants of the notebook ---------------- *)
DefaultShots == 8192
A0Default == 0
A1Default == 2
B0Default == 1
B1Default == -1

Keys == {"00", "01", "10", "11"}
EqualKeys == <<"00", "11">>
DifferKeys == <<"01", "10">>

NoValue == [kind |-> "none"]
NoArgs == [fn |-> "none"]
NoJob == [status |-> "NONE", result |-> <<>>]
NoError == "none"

(* ---------------- CHSH_circuit ---------------- *)
QuantumCircuit(nq, nc) == [qubits |-> nq, clbits |-> nc, ops |-> <<>>]

AppendOp(circ, op) == [circ EXCEPT !.ops = Append(@, op)]

h(circ, q) == AppendOp(circ, [name |-> "h", qubits |-> <<q>>, clbits |-> <<>>, params |-> <<>>])

cx(circ, c, t) == AppendOp(circ, [name |-> "cx", qubits |-> <<c, t>>, clbits |-> <<>>, params |-> <<>>])

ry(circ, theta, q) == AppendOp(circ, [name |-> "ry", qubits |-> <<q>>, clbits |-> <<>>, params |-> <<theta>>])

measure(circ, qs, cs) == AppendOp(circ, [name |-> "measure", qubits |-> qs, clbits |-> cs, params |-> <<>>])

range2 == <<0, 1>>

CHSH_circuit_swapped(x, y, a0, a1, b0, b1) ==
    LET c0 == QuantumCircuit(2, 2)
        c1 == h(c0, 0)
        c2 == cx(c1, 0, 1)
        c3 == IF x = 0 THEN ry(c2, a1, 0) ELSE ry(c2, a0, 0)
        c4 == IF y = 0 THEN ry(c3, b0, 1) ELSE ry(c3, b1, 1)
    IN  measure(c4, range2, range2)

CHSH_circuit(x, y, a0, a1, b0, b1) ==
    LET c0 == QuantumCircuit(2, 2)
        c1 == h(c0, 0)
        c2 == cx(c1, 0, 1)
        c3 == IF x = 0 THEN ry(c2, a0, 0) ELSE ry(c2, a1, 0)
        c4 == IF y = 0 THEN ry(c3, b0, 1) ELSE ry(c3, b1, 1)
    IN  measure(c4, range2, range2)

(* ---------------- inputs ---------------- *)
Selectors == 0..MaxSelector
AngleVals == (B1Default)..(A1Default)

DefaultAngles == [a0 |-> A0Default, a1 |-> A1Default, b0 |-> B0Default, b1 |-> B1Default]

AngleArgs ==
    { [a0 |-> A0Default + d, a1 |-> A1Default + d, b0 |-> B0Default - d, b1 |-> B1Default - d] :
        d \in 0..MaxAngleOffset }

ShotArgs == (0..MaxShots) \cup {DefaultShots}

BackendErrors == {"NetworkError", "AuthError", "DeviceError"}

(* ---------------- what the backend may answer ---------------- *)
EmptyCounts == [k \in {} |-> 0]
ZeroCounts == [k \in Keys |-> 0]
SingleCounts == { [k \in {key} |-> c] : key \in Keys, c \in 1..MaxCount }
KeyPairs == { {"00", "11"}, {"01", "10"}, {"00", "01"} }
PairCounts == { [k \in K |-> 1] : K \in KeyPairs }
CountMaps == {EmptyCounts, ZeroCounts} \cup SingleCounts \cup PairCounts

(* floor(shots * sqrt(2) / 8): the r with r^2 <= shots^2/32 < (r+1)^2 *)
RootPart(shots) ==
    CHOOSE r \in 0..shots : r * r * 32 <= shots * shots /\ shots * shots < (r + 1) * (r + 1) * 32

(* shots*(2+sqrt 2)/8 and shots*(2-sqrt 2)/8, i.e. shots*cos^2(pi/8)/2 and *)
(* shots*sin^2(pi/8)/2, rounded down or to the nearest integer             *)
TheoryHigh(shots, mode) ==
    LET r == RootPart(shots)
        up == (2 * r + 1) * (2 * r + 1) * 8 <= shots * shots
    IN  (shots \div 4) + (IF mode = "nearest" /\ up THEN r + 1 ELSE r)

TheoryLow(shots, mode) ==
    LET r == RootPart(shots)
        up == (2 * r + 1) * (2 * r + 1) * 8 <= shots * shots
    IN  (shots \div 4) - (IF mode = "floor" \/ up THEN r + 1 ELSE r)

TheoryCounts(i, shots, mode) ==
    LET hi == TheoryHigh(shots, mode)
        lo == TheoryLow(shots, mode)
    IN  IF i < 4
        THEN [k \in Keys |-> IF k \in {"00", "11"} THEN hi ELSE lo]
        ELSE [k \in Keys |-> IF k \in {"01", "10"} THEN hi ELSE lo]

RoundingModes == {"floor", "nearest"}

Responses(shots) ==
    IF shots = DefaultShots
    THEN { [i \in 1..4 |-> TheoryCounts(i, shots, m[i])] : m \in [1..4 -> RoundingModes] }
    ELSE [1..4 -> CountMaps]

(* ---------------- winning_probability ---------------- *)
GetItem(counts, k) ==
    IF k \in DOMAIN counts THEN [raised |-> FALSE, value |-> counts[k]]
                           ELSE [raised |-> TRUE, value |-> 0]

TallyUnchecked(t, counts, k) ==
    IF t.raised THEN t
    ELSE LET g == GetItem(counts, k)
         IN  [raised |-> g.raised, total |-> t.total + g.value]

Tally(t, counts, k) ==
    IF t.raised THEN t
    ELSE IF k \in DOMAIN counts
         THEN LET g == GetItem(counts, k)
              IN  [raised |-> g.raised, total |-> t.total + g.value]
         ELSE t

TallyFirstOnly(tot, counts, ks) ==
    Tally([raised |-> FALSE, total |-> tot], counts, ks[1])

TallyKeys(tot, counts, ks) ==
    Tally(Tally([raised |-> FALSE, total |-> tot], counts, ks[1]), counts, ks[2])

BuildList(a) ==
    << CHSH_circuit(0, 0, a.a0, a.a1, a.b0, a.b1),
       CHSH_circuit(0, 1, a.a0, a.a1, a.b0, a.b1),
       CHSH_circuit(1, 0, a.a0, a.a1, a.b0, a.b1),
       CHSH_circuit(1, 1, a.a0, a.a1, a.b0, a.b1) >>

FourthKeysEqual == EqualKeys

FourthKeys == DifferKeys

QuotientByShots(tot, shots) == [kind |-> "float", num |-> tot, den |-> shots]

Quotient(tot, shots) == [kind |-> "float", num |-> tot, den |-> 4 * shots]

Idle == pc = "idle"

Init ==
    /\ pc = "idle"
    /\ args = NoArgs
    /\ circuits = <<>>
    /\ job = NoJob
    /\ idx = 0
    /\ total = 0
    /\ ret = NoValue
    /\ exc = NoError
    /\ requests = <<>>
    /\ reads = <<>>
    /\ signalled = NoError

(* a cell calls CHSH_circuit(x, y, a0, a1, b0, b1) *)
CallCHSH ==
    /\ Idle
    /\ \E x \in Selectors, y \in Selectors, a0 \in AngleVals, a1 \in AngleVals,
          b0 \in AngleVals, b1 \in AngleVals :
          /\ args' = [fn |-> "CHSH_circuit", x |-> x, y |-> y,
                      a0 |-> a0, a1 |-> a1, b0 |-> b0, b1 |-> b1]
          /\ ret' = [kind |-> "circuit", circ |-> CHSH_circuit(x, y, a0, a1, b0, b1)]
    /\ pc' = "returned"
    /\ exc' = NoError
    /\ circuits' = <<>>
    /\ job' = NoJob
    /\ idx' = 0
    /\ total' = 0
    /\ requests' = <<>>
    /\ reads' = <<>>
    /\ signalled' = NoError

(* line 101-102: winning_probability(backend, shots, a0, a1, b0, b1); total = 0 *)
CallWP ==
    /\ Idle
    /\ \E shots \in ShotArgs, a \in AngleArgs :
          args' = [fn |-> "winning_probability", shots |-> shots,
                   a0 |-> a.a0, a1 |-> a.a1, b0 |-> a.b0, b1 |-> a.b1]
    /\ pc' = "L103"
    /\ total' = 0
    /\ ret' = NoValue
    /\ exc' = NoError
    /\ circuits' = <<>>
    /\ job' = NoJob
    /\ idx' = 0
    /\ requests' = <<>>
    /\ reads' = <<>>
    /\ signalled' = NoError

(* line 103 *)
BuildCircuits ==
    /\ pc = "L103"
    /\ circuits' = BuildList(args)
    /\ pc' = "L104"
    /\ UNCHANGED <<args, job, idx, total, ret, exc, requests, reads, signalled>>

ExecuteEach ==
    /\ pc = "L104"
    /\ requests' = requests \o [i \in 1..4 |-> [circuits |-> <<circuits[i]>>, shots |-> args.shots]]
    /\ job' = [status |-> "QUEUED", result |-> <<>>]
    /\ idx' = 1
    /\ pc' = "L107"
    /\ UNCHANGED <<args, circuits, total, ret, exc, reads, signalled>>

(* line 104: execute accepts the batch and returns the job *)
Execute ==
    /\ pc = "L104"
    /\ requests' = Append(requests, [circuits |-> circuits, shots |-> args.shots])
    /\ job' = [status |-> "QUEUED", result |-> <<>>]
    /\ idx' = 1
    /\ pc' = "L107"
    /\ UNCHANGED <<args, circuits, total, ret, exc, reads, signalled>>

(* line 104: execute raises; nothing in winning_probability catches it *)
ExecuteRaises ==
    /\ pc = "L104"
    /\ \E e \in BackendErrors :
          /\ signalled' = e
          /\ exc' = e
    /\ requests' = Append(requests, [circuits |-> circuits, shots |-> args.shots])
    /\ pc' = "raised"
    /\ UNCHANGED <<args, circuits, job, idx, total, ret, reads>>

(* the backend finishes the job: one counts mapping per circuit of the batch *)
BackendDone ==
    /\ job.status = "QUEUED"
    /\ \E resp \in Responses(args.shots) :
          job' = [status |-> "DONE", result |-> resp]
    /\ UNCHANGED <<pc, args, circuits, idx, total, ret, exc, requests, reads, signalled>>

(* the backend fails the job *)
BackendFails ==
    /\ job.status = "QUEUED"
    /\ \E e \in BackendErrors :
          /\ signalled' = e
          /\ job' = [status |-> "ERROR", result |-> <<>>]
    /\ UNCHANGED <<pc, args, circuits, idx, total, ret, exc, requests, reads>>

ResultRaisesSwallowed ==
    /\ pc \in {"L107", "L113"}
    /\ job.status = "ERROR"
    /\ pc' = "L119"
    /\ UNCHANGED <<args, circuits, job, idx, total, ret, exc, requests, reads, signalled>>

(* line 107 / 113: job.result() raises the error of a failed job *)
ResultRaises ==
    /\ pc \in {"L107", "L113"}
    /\ job.status = "ERROR"
    /\ exc' = signalled
    /\ pc' = "raised"
    /\ UNCHANGED <<args, circuits, job, idx, total, ret, requests, reads, signalled>>

(* line 106-111: one pass of the loop over circuits[0:3] *)
LoopBody ==
    /\ pc = "L107"
    /\ job.status = "DONE"
    /\ LET counts == job.result[idx]
           t == TallyKeys(total, counts, EqualKeys)
       IN  /\ reads' = Append(reads, idx)
           /\ IF t.raised
              THEN /\ exc' = "KeyError"
                   /\ pc' = "raised"
                   /\ UNCHANGED <<total, idx>>
              ELSE /\ total' = t.total
                   /\ idx' = idx + 1
                   /\ pc' = IF idx = 3 THEN "L113" ELSE "L107"
                   /\ exc' = exc
    /\ UNCHANGED <<args, circuits, job, ret, requests, signalled>>

(* line 113-117: the fourth circuit *)
Fourth ==
    /\ pc = "L113"
    /\ job.status = "DONE"
    /\ LET counts == job.result[4]
           t == TallyKeys(total, counts, FourthKeys)
       IN  /\ reads' = Append(reads, 4)
           /\ IF t.raised
              THEN /\ exc' = "KeyError"
                   /\ pc' = "raised"
                   /\ UNCHANGED total
              ELSE /\ total' = t.total
                   /\ pc' = "L119"
                   /\ exc' = exc
    /\ UNCHANGED <<args, circuits, job, idx, ret, requests, signalled>>

(* line 119: return total/(4*shots) *)
Return ==
    /\ pc = "L119"
    /\ IF 4 * args.shots = 0
       THEN /\ exc' = "ZeroDivisionError"
            /\ pc' = "raised"
            /\ ret' = ret
       ELSE /\ ret' = Quotient(total, args.shots)
            /\ pc' = "returned"
            /\ exc' = exc
    /\ UNCHANGED <<args, circuits, job, idx, total, requests, reads, signalled>>

(* the call is over: its locals are gone and the next cell may run *)
Finish ==
    /\ pc \in {"returned", "raised"}
    /\ pc' = "idle"
    /\ args' = NoArgs
    /\ circuits' = <<>>
    /\ job' = NoJob
    /\ idx' = 0
    /\ total' = 0
    /\ ret' = NoValue
    /\ exc' = NoError
    /\ requests' = <<>>
    /\ reads' = <<>>
    /\ signalled' = NoError

Next ==
    \/ CallCHSH
    \/ CallWP
    \/ BuildCircuits
    \/ Execute
    \/ ExecuteRaises
    \/ BackendDone
    \/ BackendFails
    \/ ResultRaises
    \/ LoopBody
    \/ Fourth
    \/ Return
    \/ Finish

Spec == Init /\ [][Next]_vars

(* ================= properties ================= *)
CountOf(m, k) == IF k \in DOMAIN m THEN m[k] ELSE 0

WinOf(res, i) ==
    IF i < 4 THEN CountOf(res[i], "00") + CountOf(res[i], "11")
             ELSE CountOf(res[i], "01") + CountOf(res[i], "10")

LoseOf(res, i) ==
    IF i < 4 THEN CountOf(res[i], "01") + CountOf(res[i], "10")
             ELSE CountOf(res[i], "00") + CountOf(res[i], "11")

WinSum(res) == WinOf(res, 1) + WinOf(res, 2) + WinOf(res, 3) + WinOf(res, 4)

InWP == args.fn = "winning_probability"

WPReturned == pc = "returned" /\ InWP

WPOver == InWP /\ pc \in {"returned", "raised"} /\ job.status = "DONE"

ExpectedCircuit(x, y, a0, a1, b0, b1) ==
    [qubits |-> 2, clbits |-> 2,
     ops |-> << [name |-> "h", qubits |-> <<0>>, clbits |-> <<>>, params |-> <<>>],
                [name |-> "cx", qubits |-> <<0, 1>>, clbits |-> <<>>, params |-> <<>>],
                [name |-> "ry", qubits |-> <<0>>, clbits |-> <<>>,
                 params |-> <<IF x = 0 THEN a0 ELSE a1>>],
                [name |-> "ry", qubits |-> <<1>>, clbits |-> <<>>,
                 params |-> <<IF y = 0 THEN b0 ELSE b1>>],
                [name |-> "measure", qubits |-> <<0, 1>>, clbits |-> <<0, 1>>, params |-> <<>>] >>]

TheoryNearest == [i \in 1..4 |-> TheoryCounts(i, DefaultShots, "nearest")]

TheoryCase ==
    /\ WPReturned
    /\ args.shots = DefaultShots
    /\ [a0 |-> args.a0, a1 |-> args.a1, b0 |-> args.b0, b1 |-> args.b1] = DefaultAngles
    /\ job.result = TheoryNearest

Abs(n) == IF n < 0 THEN 0 - n ELSE n

(* C1: for shots > 0 the call returns exactly (the 00 and 11 counts of the   *)
(* first three circuits plus the 01 and 10 counts of the fourth) over        *)
(* 4*shots; no other count enters the result.                                *)
C1_ExactFraction ==
    /\ WPReturned =>
          /\ args.shots > 0
          /\ ret = [kind |-> "float", num |-> WinSum(job.result), den |-> 4 * args.shots]
    /\ (WPOver /\ args.shots > 0) => pc = "returned"

C1_Witness ==
    /\ WPReturned
    /\ LoseOf(job.result, 1) > 0
    /\ LoseOf(job.result, 4) > 0
    /\ WinOf(job.result, 2) > 0
    /\ WinOf(job.result, 4) > 0

(* C2 as stated: whatever the shot count (0 included) and whatever counts    *)
(* the backend returns, the call returns a value in [0,1].                   *)
C2_AlwaysInUnit ==
    WPOver => (pc = "returned" /\ 0 <= ret.num /\ ret.num <= ret.den)

(* C2 amended: with shots > 0 the call returns, and the value is in [0,1]    *)
(* whenever no count is negative and the winning counts of each circuit are  *)
(* at most shots; with shots = 0 it raises ZeroDivisionError.                *)
C2_InUnitWhenBounded ==
    WPOver =>
        IF args.shots = 0
        THEN pc = "raised" /\ exc = "ZeroDivisionError" /\ ret = NoValue
        ELSE /\ pc = "returned"
             /\ ( \A i \in 1..4 :
                     /\ \A k \in DOMAIN job.result[i] : job.result[i][k] >= 0
                     /\ WinOf(job.result, i) <= args.shots )
                => (0 <= ret.num /\ ret.num <= ret.den)

C2_Witness ==
    /\ WPReturned
    /\ \A i \in 1..4 : WinOf(job.result, i) <= args.shots
    /\ \E i \in 1..4 : CountOf(job.result[i], "00") > args.shots
    /\ 0 < ret.num
    /\ ret.num < ret.den

(* C3: a key missing from a circuit's counts adds nothing and raises         *)
(* nothing; with only 00 and 11 counts everywhere the fourth circuit adds 0; *)
(* with all counts zero or missing (and positive shots) the result is 0.     *)
C3_AbsentKeysAddZero ==
    /\ exc # "KeyError"
    /\ (InWP /\ pc \in {"L119", "returned"}) => total = WinSum(job.result)
    /\ (InWP /\ pc \in {"L119", "returned"}
          /\ \A i \in 1..4 : DOMAIN job.result[i] \subseteq {"00", "11"})
       => total = WinOf(job.result, 1) + WinOf(job.result, 2) + WinOf(job.result, 3)
    /\ (WPOver /\ args.shots > 0
          /\ \A i \in 1..4 : \A k \in DOMAIN job.result[i] : job.result[i][k] = 0)
       => (pc = "returned" /\ ret.num = 0 /\ ret.den > 0)

C3_Witness ==
    /\ WPReturned
    /\ \A i \in 1..4 : DOMAIN job.result[i] \subseteq {"00", "11"}
    /\ DOMAIN job.result[1] = {"00", "11"}
    /\ DOMAIN job.result[4] = {"11"}
    /\ DOMAIN job.result[2] = {}
    /\ ret.num = 2

(* C4: a selector outside {0,1} makes CHSH_circuit fail with a validation    *)
(* error and yield no circuit.                                               *)
C4_RejectsBadSelector ==
    (args.fn = "CHSH_circuit" /\ pc \in {"returned", "raised"}
        /\ (args.x \notin {0, 1} \/ args.y \notin {0, 1}))
    => (pc = "raised" /\ ret = NoValue)

(* C5: for bits x, y the circuit is H(0), CX(0,1), one ry on qubit 0 with a0 *)
(* if x = 0 else a1, one ry on qubit 1 with b0 if y = 0 else b1, then the    *)
(* measurement of both qubits; it is determined by the arguments.            *)
C5_CircuitShape ==
    (args.fn = "CHSH_circuit" /\ pc = "returned" /\ args.x \in {0, 1} /\ args.y \in {0, 1})
    => ret = [kind |-> "circuit",
              circ |-> ExpectedCircuit(args.x, args.y, args.a0, args.a1, args.b0, args.b1)]

C5_Witness ==
    /\ args.fn = "CHSH_circuit"
    /\ pc = "returned"
    /\ args.x = 1
    /\ args.y = 0
    /\ Cardinality({args.a0, args.a1, args.b0, args.b1}) = 4
    /\ ret.circ.ops[3].params = <<args.a1>>
    /\ ret.circ.ops[4].params = <<args.b0>>

(* C7 as stated: fed the theoretical counts for 8192 shots and the default   *)
(* angles, the result is within 1e-9 of 0.8536.                              *)
C7_Within1e9 ==
    TheoryCase => Abs(10000 * ret.num - 8536 * ret.den) <= ret.den \div 100000

(* C7 amended: fed those counts the result is 27968/32768 = 0.853515625,     *)
(* which is within 1e-4 of 0.8536.                                           *)
C7_Within1e4 ==
    TheoryCase =>
        /\ ret = [kind |-> "float", num |-> 27968, den |-> 32768]
        /\ Abs(10000 * ret.num - 8536 * ret.den) <= ret.den

C7_Witness ==
    /\ TheoryCase
    /\ job.result[1] = [k \in Keys |-> IF k \in {"00", "11"} THEN 3496 ELSE 600]
    /\ job.result[4] = [k \in Keys |-> IF k \in {"01", "10"} THEN 3496 ELSE 600]

(* C8: once the backend has signalled a failure, the call raises that very   *)
(* error: it never returns a value, never reads counts, and the batch is     *)
(* not submitted again.                                                      *)
C8_FailurePropagates ==
    signalled # NoError =>
        /\ pc \in {"L107", "raised"}
        /\ pc = "raised" => exc = signalled
        /\ ret = NoValue
        /\ reads = <<>>
        /\ Len(requests) = 1

C8_Witness ==
    /\ pc = "raised"
    /\ job.status = "ERROR"
    /\ exc = "DeviceError"
    /\ signalled = "DeviceError"

(* C9: a call sends one request, holding the circuits for (0,0), (0,1),      *)
(* (1,0), (1,1) in this order with the call's angles and shots; counts are   *)
(* read only after it was sent and the job is done.                          *)
C9_OneBatchBeforeReads ==
    /\ Len(requests) <= 1
    /\ (InWP /\ pc \notin {"L103", "L104"}) =>
          /\ Len(requests) = 1
          /\ requests[1] =
                [circuits |-> << ExpectedCircuit(0, 0, args.a0, args.a1, args.b0, args.b1),
                                 ExpectedCircuit(0, 1, args.a0, args.a1, args.b0, args.b1),
                                 ExpectedCircuit(1, 0, args.a0, args.a1, args.b0, args.b1),
                                 ExpectedCircuit(1, 1, args.a0, args.a1, args.b0, args.b1) >>,
                 shots |-> args.shots]
    /\ reads # <<>> => (job.status = "DONE" /\ Len(requests) = 1)
    /\ reads = SubSeq(<<1, 2, 3, 4>>, 1, Len(reads))

C9_Witness ==
    /\ WPReturned
    /\ reads = <<1, 2, 3, 4>>
    /\ Len(requests) = 1
    /\ args.a0 # A0Default
    /\ args.shots = 1

(* C10: if shots > 0 and every circuit's counts are non-negative and add up  *)
(* to shots, the result is in [0,1], and it is 1 exactly when every shot of  *)
(* every circuit wins.                                                       *)
C10_UnitUnderBackendContract ==
    (WPOver /\ args.shots > 0
        /\ \A i \in 1..4 :
              /\ \A k \in DOMAIN job.result[i] : job.result[i][k] >= 0
              /\ WinOf(job.result, i) + LoseOf(job.result, i) = args.shots)
    => /\ pc = "returned"
       /\ 0 <= ret.num
       /\ ret.num <= ret.den
       /\ (ret.num = ret.den) <=> (\A i \in 1..4 : LoseOf(job.result, i) = 0)

C10_Witness ==
    /\ WPReturned
    /\ \A i \in 1..4 : WinOf(job.result, i) = args.shots /\ LoseOf(job.result, i) = 0
    /\ ret.num = ret.den

====
